---- MODULE Spec2Model ----
(***************************************************************************)
(* State-machine model of the express-prisma-react GraphQL server:          *)
(* the context function (identity resolver), the task resolvers and the    *)
(* Prisma task/user tables they read and write.                             *)
(*                                                                         *)
(* One action is one GraphQL request: the context function runs first,     *)
(* then the resolver.  Every storage call may fail (the Prisma promise     *)
(* rejects); the request's inputs choose which one does.  res is the       *)
(* response on its way to the client; Deliver hands it over, and the       *)
(* client then sends its next request.                                     *)
(***************************************************************************)
EXTENDS Integers, Sequences, FiniteSets, TLC

\* ---------------------------------------------------------------- bounds
MaxUsers == 2
MaxTasks == 2
MaxFirst == 2
MaxClock == 2

\* ------------------------------------------------------------ identifiers
NoUser == 0
NoId == 0
UserIds == 1..MaxUsers
\* subject of a token that was signed before the user row disappeared
\* (README "Reset Database": the database file is removed, tokens live on)
GhostUser == MaxUsers + 1
TaskIds == 1..MaxTasks
\* an id no task ever had
NeverId == MaxTasks + 1

Min(a, b) == IF a < b THEN a ELSE b

\* ------------------------------------------------------------------ titles
\* a title is a sequence of characters; " " is white space
Titles == { <<" ", "x", "x">>, <<"x", "x", "x">> }

RECURSIVE TrimStart(_)
TrimStart(s) == IF s # <<>> /\ Head(s) = " " THEN TrimStart(Tail(s)) ELSE s

RECURSIVE TrimEnd(_)
TrimEnd(s) ==
    IF s # <<>> /\ s[Len(s)] = " " THEN TrimEnd(SubSeq(s, 1, Len(s) - 1)) ELSE s

Trim(s) == TrimEnd(TrimStart(s))

MinTitleLength == 3

\* ------------------------------------------------- names, emails, passwords
Names == { <<"x">>, <<" ", "x">>, <<"x", "x">> }

MinNameLength == 2

\* the address of the n-th mailbox: n letters, then "@b.c"
Email(n) == [i \in 1..n |-> "a"] \o <<"@", "b", ".", "c">>

Emails == { Email(n) : n \in 1..MaxUsers }

\* an address without "@"
BadEmail == <<"a", "b", ".", "c">>

ShortPassword == <<"p", "p", "p", "p", "p">>

GoodPassword == <<"p", "p", "p", "p", "p", "p">>

OtherPassword == <<"q", "q", "q", "q", "q", "q">>

Passwords == {ShortPassword, GoodPassword, OtherPassword}

MinPasswordLength == 6

\* bcrypt: the hash of a password, and whether a password has that hash
hashPassword(password) == [alg |-> "bcrypt", of |-> password]

comparePassword(password, hash) == hash = hashPassword(password)

\* ------------------------------------------------------------------- rows
NoRow == [exists |-> FALSE, userId |-> NoUser, title |-> <<>>,
          completed |-> FALSE, createdAt |-> 0]

\* a row stamped with another user than the one given
NewRow_otherOwner(uid, title, now) ==
    [exists |-> TRUE, userId |-> (uid % MaxUsers) + 1, title |-> title,
     completed |-> FALSE, createdAt |-> now]

NewRow(uid, title, now) ==
    [exists |-> TRUE, userId |-> uid, title |-> title,
     completed |-> FALSE, createdAt |-> now]

NoAccount == [exists |-> FALSE, email |-> <<>>, password |-> hashPassword(<<>>)]

NewAccount(email, hash) == [exists |-> TRUE, email |-> email, password |-> hash]

\* ----------------------------------------------------------------- tokens
NoToken == [kind |-> "absent", sub |-> NoUser, goodSig |-> FALSE, expired |-> FALSE]
Malformed == [kind |-> "malformed", sub |-> NoUser, goodSig |-> FALSE, expired |-> FALSE]
Jwts == [kind : {"jwt"}, sub : UserIds \cup {GhostUser},
         goodSig : BOOLEAN, expired : BOOLEAN]
Tokens == {NoToken, Malformed} \cup Jwts

VARIABLES users, accounts, tasks, nextId, clock, res, pend

vars == <<users, accounts, tasks, nextId, clock, res, pend>>

store == <<users, accounts, tasks, nextId>>

\* ------------------------------------------------------- identity resolver
\* jwt.verify inside try/catch: the payload's userId, or null
verifyToken(tok) ==
    IF tok.kind = "jwt" /\ tok.goodSig /\ ~tok.expired THEN tok.sub ELSE NoUser

\* a token signed for the first user, whoever asks
generateToken_first(userId) ==
    [kind |-> "jwt", sub |-> 1, goodSig |-> TRUE, expired |-> FALSE]

\* jwt.sign({ userId }, JWT_SECRET, { expiresIn: "7d" })
generateToken(userId) ==
    [kind |-> "jwt", sub |-> userId, goodSig |-> TRUE, expired |-> FALSE]

\* a lookup that finds a user under every id
findUser_any(us, id) == id

\* prisma.user.findUnique({ where: { id } }): the user, or null
findUser(us, id) == IF id \in us THEN id ELSE NoUser

\* the context function trusting the token's subject without the user lookup
getContext_trust(tok, fail, us) ==
    [thrown |-> FALSE, user |-> verifyToken(tok), calls |-> 0]

\* the context function; fail = the user lookup rejects
getContext(tok, fail, us) ==
    IF tok.kind = "absent" THEN [thrown |-> FALSE, user |-> NoUser, calls |-> 0]
    ELSE IF verifyToken(tok) = NoUser
         THEN [thrown |-> FALSE, user |-> NoUser, calls |-> 0]
    ELSE IF fail THEN [thrown |-> TRUE, user |-> NoUser, calls |-> 1]
    ELSE [thrown |-> FALSE, user |-> findUser(us, verifyToken(tok)), calls |-> 1]

\* ------------------------------------------------------------------ guards
\* TRUE when requireAuth throws AuthenticationError
requireAuth_never(user) == FALSE

requireAuth(user) == user = NoUser

\* /^[^\s@]+@[^\s@]+\.[^\s@]+$/ : three non-empty parts free of white space
\* and "@", the first two joined by "@", the last two by "."
PlainPart(s) == s # <<>> /\ \A i \in 1..Len(s) : s[i] # " " /\ s[i] # "@"

isValidEmail(email) ==
    \E i, j \in 1..Len(email) :
        /\ i < j
        /\ email[i] = "@"
        /\ email[j] = "."
        /\ PlainPart(SubSeq(email, 1, i - 1))
        /\ PlainPart(SubSeq(email, i + 1, j - 1))
        /\ PlainPart(SubSeq(email, j + 1, Len(email)))

\* !name || name.trim().length < 2
nameInvalid(name) == name = <<>> \/ Len(Trim(name)) < MinNameLength

\* existingTask.userId !== user.id
notOwner_never(row, user) == FALSE

notOwner(row, user) == row.userId # user

\* the length test without the trim
titleInvalid_untrimmed(title) == title = <<>> \/ Len(title) < MinTitleLength

\* !title || title.trim().length < 3
titleInvalid(title) == title = <<>> \/ Len(Trim(title)) < MinTitleLength

\* ----------------------------------------------------------------- results
NoRes == [op |-> "init", tok |-> NoToken, ctx |-> "none", user |-> NoUser,
          err |-> "none", calls |-> 0, ctxCalls |-> 0, id |-> NoId, snap |-> NoRow,
          items |-> <<>>, hasNextPage |-> FALSE, hasPreviousPage |-> FALSE,
          startCursor |-> NoId, endCursor |-> NoId, totalCount |-> 0,
          first |-> 0, after |-> NoId, target |-> NoUser, order |-> <<>>,
          cont |-> FALSE, prev |-> <<>>, listed |-> <<>>, changed |-> FALSE,
          failed |-> 0, title |-> <<>>, email |-> <<>>, msg |-> ""]

\* the request reached the resolver with this principal
Started(op, c) ==
    [NoRes EXCEPT !.op = op, !.ctx = "ok", !.user = c.user, !.ctxCalls = c.calls]

\* context creation failed: the resolver never runs
CtxFailed(op, c) ==
    [NoRes EXCEPT !.op = op, !.ctx = "thrown", !.err = "CONTEXT", !.ctxCalls = c.calls]

Failed(r, code, n) == [r EXCEPT !.err = code, !.calls = n]

\* the n-th storage call of the resolver rejected and the answer is a normal
\* result
StorageFailed_swallowed(r, n) == [r EXCEPT !.calls = n, !.failed = n]

\* the n-th storage call of the resolver rejected (failed = n): nothing
\* catches the rejection, the request is answered with the storage error
StorageFailed(r, n) == [r EXCEPT !.err = "STORAGE", !.calls = n, !.failed = n]

\* ------------------------------------------------------ calls in progress
\* the claims about races speak of two calls at a time
Callers == {1, 2}

\* an UpdateTaskInput with no field present
NoInput == [hasTitle |-> FALSE, title |-> <<>>, hasCompleted |-> FALSE,
            completed |-> FALSE]

\* a resolver call between its awaits: pc = the storage call it is about to
\* issue, seen = the row its read returned, before = the row stored when its
\* write was applied, snap = the record it returns, last = no other call
\* has written since, tok = the token it returns
NoCall == [op |-> "idle", pc |-> "idle", user |-> NoUser, id |-> NoId,
           input |-> NoInput, seen |-> NoRow, before |-> NoRow, snap |-> NoRow,
           err |-> "none", last |-> FALSE, tok |-> NoToken]

TypeOK ==
    /\ users \subseteq UserIds
    /\ \A u \in UserIds : accounts[u].exists <=> u \in users
    /\ nextId \in 1..(MaxTasks + 1)
    /\ clock \in 1..MaxClock
    /\ \A i \in TaskIds : tasks[i].exists => tasks[i].userId \in UserIds
    /\ \A i \in TaskIds : i >= nextId => ~tasks[i].exists

Init ==
    /\ users = UserIds
    /\ accounts = [u \in UserIds |-> NewAccount(Email(u), hashPassword(GoodPassword))]
    /\ tasks = [i \in TaskIds |-> NoRow]
    /\ nextId = 1
    /\ clock = 1
    /\ res = NoRes
    /\ pend = [p \in Callers |-> NoCall]

\* time passes: now() moves to the next millisecond
Tick ==
    /\ res = NoRes
    /\ clock < MaxClock
    /\ clock' = clock + 1
    /\ UNCHANGED <<pend, users, accounts, tasks, nextId, res>>

\* what the context function can hand to a resolver, over every credential
\* a request may carry and both outcomes of the user lookup
Contexts == { getContext(tok, cf, users) : tok \in Tokens, cf \in BOOLEAN }

\* query { hello }: the context function runs, the resolver touches nothing
Hello ==
    /\ res = NoRes
    /\ \E tok \in Tokens, cf \in BOOLEAN :
        LET c == getContext(tok, cf, users) IN
        /\ res' = IF c.thrown
                  THEN [CtxFailed("hello", c) EXCEPT !.tok = tok]
                  ELSE [Started("hello", c) EXCEPT !.tok = tok]
        /\ UNCHANGED <<pend, users, accounts, tasks, nextId, clock>>

\* ---------------------------------------------------------- authentication
\* prisma.user.findUnique({ where: { email } }): the user's id, or NoUser
findUserByEmail(us, acc, email) ==
    IF \E u \in us : acc[u].email = email
    THEN CHOOSE u \in us : acc[u].email = email
    ELSE NoUser

RegisterInputs == [name : Names, email : Emails \cup {BadEmail}, password : Passwords]

LoginInputs == [email : Emails \cup {BadEmail}, password : Passwords]

\* the id (uuid) the database gives the next user row: one no row ever had
NewUserId(us) == CHOOSE u \in UserIds \ us : \A v \in UserIds \ us : u <= v

\* mutation { register(input) }: the answer carries the token (tok) and the
\* user (target)
Register ==
    /\ res = NoRes
    /\ \E c \in Contexts, failAt \in 0..2, input \in RegisterInputs :
        LET r == Started("register", c)
            existingUser == findUserByEmail(users, accounts, input.email)
            same == UNCHANGED <<pend, users, accounts, tasks, nextId, clock>>
        IN
        IF c.thrown
        THEN res' = CtxFailed("register", c) /\ same
        ELSE IF nameInvalid(input.name)
        THEN res' = Failed(r, "BAD_USER_INPUT", 0) /\ same
        ELSE IF ~isValidEmail(input.email)
        THEN res' = Failed(r, "BAD_USER_INPUT", 0) /\ same
        ELSE IF Len(input.password) < MinPasswordLength
        THEN res' = Failed(r, "BAD_USER_INPUT", 0) /\ same
        ELSE IF failAt = 1
        THEN res' = StorageFailed(r, 1) /\ same
        ELSE IF existingUser # NoUser
        THEN res' = Failed(r, "BAD_USER_INPUT", 1) /\ same
        ELSE IF failAt = 2
        THEN res' = StorageFailed(r, 2) /\ same
        ELSE /\ users # UserIds
             /\ users' = users \cup {NewUserId(users)}
             /\ accounts' = [accounts EXCEPT ![NewUserId(users)] =
                                NewAccount(input.email, hashPassword(input.password))]
             /\ res' = [r EXCEPT !.calls = 2,
                                 !.tok = generateToken(NewUserId(users)),
                                 !.target = NewUserId(users)]
             /\ UNCHANGED <<pend, tasks, nextId, clock>>

\* throw new AuthenticationError("Invalid credentials") after !user
UnknownEmailError(r) ==
    [Failed(r, "UNAUTHENTICATED", 1) EXCEPT !.msg = "Invalid credentials"]

\* a failure that names the password
WrongPasswordError_telling(r) ==
    [Failed(r, "UNAUTHENTICATED", 1) EXCEPT !.msg = "Wrong password"]

\* throw new AuthenticationError("Invalid credentials") after !isValidPassword
WrongPasswordError(r) ==
    [Failed(r, "UNAUTHENTICATED", 1) EXCEPT !.msg = "Invalid credentials"]

\* mutation { login(input) }: the answer carries the token (tok) and the
\* user (target)
Login ==
    /\ res = NoRes
    /\ \E c \in Contexts, failAt \in 0..1, input \in LoginInputs :
        LET r == [Started("login", c) EXCEPT !.email = input.email]
            user == findUserByEmail(users, accounts, input.email)
        IN
        /\ UNCHANGED <<pend, users, accounts, tasks, nextId, clock>>
        /\ IF c.thrown
           THEN res' = CtxFailed("login", c)
           ELSE IF failAt = 1
           THEN res' = StorageFailed(r, 1)
           ELSE IF user = NoUser
           THEN res' = UnknownEmailError(r)
           ELSE IF ~comparePassword(input.password, accounts[user].password)
           THEN res' = WrongPasswordError(r)
           ELSE res' = [r EXCEPT !.calls = 1,
                                 !.tok = generateToken(user),
                                 !.target = user]

\* the answer is a session: a token and the user it was issued for
IsSession(r) == r.op \in {"register", "login"} /\ r.err = "none"

\* the client sends the token it was given on its next request; late = the
\* seven days of the token have passed by then
Present ==
    /\ IsSession(res)
    /\ \E cf \in BOOLEAN, late \in BOOLEAN :
        LET tok == [res.tok EXCEPT !.expired = late]
            c == getContext(tok, cf, users)
        IN res' = [(IF c.thrown THEN CtxFailed("hello", c) ELSE Started("hello", c))
                   EXCEPT !.tok = tok, !.cont = TRUE, !.target = res.target]
    /\ UNCHANGED <<pend, users, accounts, tasks, nextId, clock>>

\* --------------------------------------------------------------- mutations
CreateInputs == [title : Titles \cup {<<>>}]

\* UpdateTaskInput: every field is optional (has* = the field is present);
\* titles = the titles the requests carry
UpdateInputsOf(titles) ==
    { i \in [hasTitle : BOOLEAN, title : titles \cup {<<>>},
             hasCompleted : BOOLEAN, completed : BOOLEAN] :
        /\ i.hasTitle <=> i.title # <<>>
        /\ ~i.hasCompleted => ~i.completed }

\* the titles createTask accepts
ValidTitles == { t \in Titles : ~titleInvalid(t) }

\* the inputs updateTask is called with: any field present or not, the title
\* one that createTask accepts
UpdateInputs == UpdateInputsOf(ValidTitles)

\* an update that also hands the row to another user
UpdateRow_reown(row, input) ==
    [row EXCEPT !.title = IF input.hasTitle THEN input.title ELSE @,
                !.completed = IF input.hasCompleted THEN input.completed ELSE @,
                !.userId = (@ % MaxUsers) + 1]

\* prisma.task.update({ where: { id }, data }): only the fields present change
UpdateRow(row, input) ==
    [row EXCEPT !.title = IF input.hasTitle THEN input.title ELSE @,
                !.completed = IF input.hasCompleted THEN input.completed ELSE @]

\* prisma.task.delete({ where: { id } })
DeleteRow_keep(t, id) == t

\* a delete that empties the table
DeleteRow_all(t, id) == [i \in TaskIds |-> NoRow]

DeleteRow(t, id) == [t EXCEPT ![id] = NoRow]

\* prisma.task.findUnique({ where: { id } }): the row, or null (NoRow)
findTask(t, id) == IF id \in TaskIds THEN t[id] ELSE NoRow

CreateTask ==
    /\ res = NoRes
    /\ \E c \in Contexts, failAt \in 0..1, input \in CreateInputs :
        LET r == [Started("createTask", c) EXCEPT !.title = input.title] IN
        /\ IF c.thrown
           THEN res' = CtxFailed("createTask", c)
                /\ UNCHANGED <<pend, users, accounts, tasks, nextId, clock>>
           ELSE IF requireAuth(c.user)
           THEN res' = Failed(r, "UNAUTHENTICATED", 0)
                /\ UNCHANGED <<pend, users, accounts, tasks, nextId, clock>>
           ELSE IF titleInvalid(input.title)
           THEN res' = Failed(r, "BAD_USER_INPUT", 0)
                /\ UNCHANGED <<pend, users, accounts, tasks, nextId, clock>>
           ELSE IF failAt = 1
           THEN res' = StorageFailed(r, 1)
                /\ UNCHANGED <<pend, users, accounts, tasks, nextId, clock>>
           ELSE /\ nextId <= MaxTasks
                /\ tasks' = [tasks EXCEPT ![nextId] = NewRow(c.user, input.title, clock)]
                /\ nextId' = nextId + 1
                /\ res' = [r EXCEPT !.calls = 1, !.id = nextId,
                                    !.snap = NewRow(c.user, input.title, clock)]
                /\ UNCHANGED <<pend, users, accounts, clock>>

\* the sequence with the ownership check ahead of the existence check
Mutate_ownerFirst(op, c, failAt, id, writes) ==
    LET r == [Started(op, c) EXCEPT !.id = id]
        existingTask == findTask(tasks, id)
        same == UNCHANGED <<pend, users, accounts, tasks, nextId, clock>>
    IN
    IF c.thrown
    THEN res' = [CtxFailed(op, c) EXCEPT !.id = id] /\ same
    ELSE IF requireAuth(c.user)
    THEN res' = Failed(r, "UNAUTHENTICATED", 0) /\ same
    ELSE IF failAt = 1
    THEN res' = StorageFailed(r, 1) /\ same
    ELSE IF notOwner(existingTask, c.user)
    THEN res' = Failed(r, "FORBIDDEN", 1) /\ same
    ELSE IF ~existingTask.exists
    THEN res' = Failed(r, "NOT_FOUND", 1) /\ same
    ELSE IF failAt = 2
    THEN res' = StorageFailed(r, 2) /\ same
    ELSE \E w \in writes :
            /\ tasks' = w.t
            /\ res' = [r EXCEPT !.calls = 2, !.snap = w.snap]
            /\ UNCHANGED <<pend, users, accounts, nextId, clock>>

\* the sequence with the write issued ahead of the ownership check
Mutate_writeFirst(op, c, failAt, id, writes) ==
    LET r == [Started(op, c) EXCEPT !.id = id]
        existingTask == findTask(tasks, id)
        same == UNCHANGED <<pend, users, accounts, tasks, nextId, clock>>
    IN
    IF c.thrown
    THEN res' = [CtxFailed(op, c) EXCEPT !.id = id] /\ same
    ELSE IF requireAuth(c.user)
    THEN res' = Failed(r, "UNAUTHENTICATED", 0) /\ same
    ELSE IF failAt = 1
    THEN res' = StorageFailed(r, 1) /\ same
    ELSE IF ~existingTask.exists
    THEN res' = Failed(r, "NOT_FOUND", 1) /\ same
    ELSE IF failAt = 2
    THEN res' = StorageFailed(r, 2) /\ same
    ELSE \E w \in writes :
            /\ tasks' = w.t
            /\ res' = IF notOwner(existingTask, c.user)
                      THEN Failed(r, "FORBIDDEN", 2)
                      ELSE [r EXCEPT !.calls = 2, !.snap = w.snap]
            /\ UNCHANGED <<pend, users, accounts, nextId, clock>>

\* the read-check-write sequence shared by updateTask, deleteTask and
\* toggleTaskComplete; writes is what the storage mutation can do to the row
\* read: the table afterwards (t) and the record it returns (snap)
Mutate(op, c, failAt, id, writes) ==
    LET r == [Started(op, c) EXCEPT !.id = id]
        existingTask == findTask(tasks, id)
        same == UNCHANGED <<pend, users, accounts, tasks, nextId, clock>>
    IN
    IF c.thrown
    THEN res' = [CtxFailed(op, c) EXCEPT !.id = id] /\ same
    ELSE IF requireAuth(c.user)
    THEN res' = Failed(r, "UNAUTHENTICATED", 0) /\ same
    ELSE IF failAt = 1
    THEN res' = StorageFailed(r, 1) /\ same
    ELSE IF ~existingTask.exists
    THEN res' = Failed(r, "NOT_FOUND", 1) /\ same
    ELSE IF notOwner(existingTask, c.user)
    THEN res' = Failed(r, "FORBIDDEN", 1) /\ same
    ELSE IF failAt = 2
    THEN res' = StorageFailed(r, 2) /\ same
    ELSE \E w \in writes :
            /\ tasks' = w.t
            /\ res' = [r EXCEPT !.calls = 2, !.snap = w.snap]
            /\ UNCHANGED <<pend, users, accounts, nextId, clock>>

UpdateTaskWith(inputs) ==
    /\ res = NoRes
    /\ \E c \in Contexts, failAt \in 0..2, id \in TaskIds \cup {NeverId} :
        LET row == findTask(tasks, id)
            writes == { [t |-> [tasks EXCEPT ![id] = UpdateRow(row, input)],
                         snap |-> UpdateRow(row, input)] : input \in inputs }
        IN Mutate("updateTask", c, failAt, id, writes)

\* updateTask carrying titles that createTask would accept
UpdateTask == UpdateTaskWith(UpdateInputs)

DeleteTask ==
    /\ res = NoRes
    /\ \E c \in Contexts, failAt \in 0..2, id \in TaskIds \cup {NeverId} :
        LET row == findTask(tasks, id)
            writes == { [t |-> DeleteRow(tasks, id), snap |-> row] }
        IN Mutate("deleteTask", c, failAt, id, writes)

ToggleTaskComplete ==
    /\ res = NoRes
    /\ \E c \in Contexts, failAt \in 0..2, id \in TaskIds \cup {NeverId} :
        LET row == findTask(tasks, id)
            writes == { [t |-> [tasks EXCEPT ![id] = [row EXCEPT !.completed = ~row.completed]],
                         snap |-> [row EXCEPT !.completed = ~row.completed]] }
        IN Mutate("toggleTaskComplete", c, failAt, id, writes)

\* ----------------------------------------------------------------- queries
\* default page size of tasksOffset (limit) and tasksCursor (first)
DefaultFirst == 10

PageSizes == 0..MaxFirst \cup {DefaultFirst}

\* where: { userId }
Filtered(t, uid) == { i \in TaskIds : t[i].exists /\ t[i].userId = uid }

\* orderBy: { createdAt: "desc" } and nothing else: the database may return
\* rows of equal createdAt in any order, and in a different one each time
ListingOrders(t, S) ==
    { s \in [1..Cardinality(S) -> S] :
        /\ \A i, j \in 1..Cardinality(S) : i # j => s[i] # s[j]
        /\ \A i, j \in 1..Cardinality(S) :
              i < j => t[s[i]].createdAt >= t[s[j]].createdAt }

\* position of x in s, 0 when it is not there
IndexOf(s, x) ==
    IF \E i \in 1..Len(s) : s[i] = x
    THEN CHOOSE i \in 1..Len(s) : s[i] = x
    ELSE 0

\* prisma.task.findMany({ take, cursor, skip }) over the ordered rows: start
\* at the cursor row (at the first row without a cursor), drop skip rows,
\* return at most take; a cursor that is not among the rows gives no rows
FindMany(ord, take, cursor, skip) ==
    LET at == IF cursor = NoId THEN 1 ELSE IndexOf(ord, cursor)
        from == at + skip
    IN IF at = 0 THEN <<>>
       ELSE SubSeq(ord, from, Min(from + take - 1, Len(ord)))

\* userId || currentUser.id
TargetUser(userId, currentUser) == IF userId # NoUser THEN userId ELSE currentUser

\* take: first + 1
TakeArg_exact(first) == first

TakeArg(first) == first + 1

\* tasks.length > first
HasNextPage_atLeast(fetched, first) == Len(fetched) >= first

HasNextPage(fetched, first) == Len(fetched) > first

\* tasks.slice(0, first)
Slice(fetched, first) == SubSeq(fetched, 1, Min(first, Len(fetched)))

\* !!after
HasPreviousPage_always(after) == TRUE

HasPreviousPage(after) == after # NoId

\* edges[0]?.cursor and edges[edges.length - 1]?.cursor
StartCursor(edges) == IF edges = <<>> THEN NoId ELSE edges[1]

EndCursor(edges) == IF edges = <<>> THEN NoId ELSE edges[Len(edges)]

\* a connection whose totalCount counts the items of the page
Connection_pageCount(r, fetched, first, after, total) ==
    [r EXCEPT !.calls = 2,
              !.items = Slice(fetched, first),
              !.hasNextPage = HasNextPage(fetched, first),
              !.hasPreviousPage = HasPreviousPage(after),
              !.startCursor = StartCursor(Slice(fetched, first)),
              !.endCursor = EndCursor(Slice(fetched, first)),
              !.totalCount = Len(Slice(fetched, first))]

\* the connection tasksCursor builds from the rows findMany returned
Connection(r, fetched, first, after, total) ==
    [r EXCEPT !.calls = 2,
              !.items = Slice(fetched, first),
              !.hasNextPage = HasNextPage(fetched, first),
              !.hasPreviousPage = HasPreviousPage(after),
              !.startCursor = StartCursor(Slice(fetched, first)),
              !.endCursor = EndCursor(Slice(fetched, first)),
              !.totalCount = total]

\* one tasksCursor request; held = the page the client holds when it asks
\* for the page after it (NoRes when it holds none): cont marks such a
\* request, prev and listed are the held page's items and the listing they
\* were cut from, changed tells whether records were created or deleted
\* since the held page was fetched
CursorRequest(c, failAt, first, after, userId, held) ==
    LET target == TargetUser(userId, c.user)
        r == [Started("tasksCursor", c) EXCEPT !.first = first, !.after = after,
                                                !.target = target,
                                                !.cont = held # NoRes,
                                                !.prev = held.items,
                                                !.listed = held.order,
                                                !.changed = held.changed]
    IN
    /\ UNCHANGED <<pend, users, accounts, tasks, nextId, clock>>
    /\ IF c.thrown
       THEN res' = CtxFailed("tasksCursor", c)
       ELSE IF requireAuth(c.user)
       THEN res' = Failed(Started("tasksCursor", c), "UNAUTHENTICATED", 0)
       ELSE IF failAt = 1
       THEN res' = StorageFailed(Started("tasksCursor", c), 1)
       ELSE IF failAt = 2
       THEN res' = StorageFailed(Started("tasksCursor", c), 2)
       ELSE \E ord \in ListingOrders(tasks, Filtered(tasks, target)) :
               res' = [Connection(r,
                                  FindMany(ord, TakeArg(first), after,
                                           IF after # NoId THEN 1 ELSE 0),
                                  first, after,
                                  Cardinality(Filtered(tasks, target)))
                       EXCEPT !.order = ord]

\* the response is a page the client can continue from
IsFirstPage(r) ==
    /\ r.op = "tasksCursor"
    /\ r.err = "none"
    /\ r.after = NoId
    /\ r.endCursor # NoId

\* the client keeps a page while the server goes on serving others
IsHeldPage(r) == r.op = "held"

\* between two page fetches of one client, a createTask or a deleteTask of
\* another client is served to its end (its response goes to that client);
\* time may pass before it.  The first client keeps its page (op "held").
Meanwhile ==
    /\ IsFirstPage(res) \/ IsHeldPage(res)
    /\ \E now \in clock..Min(clock + 1, MaxClock) :
        /\ clock' = now
        /\ \/ \E u \in users, title \in ValidTitles :
                 /\ nextId <= MaxTasks
                 /\ tasks' = [tasks EXCEPT ![nextId] = NewRow(u, title, now)]
                 /\ nextId' = nextId + 1
           \/ \E id \in TaskIds :
                 /\ tasks[id].exists
                 /\ tasks' = DeleteRow(tasks, id)
                 /\ nextId' = nextId
    /\ res' = [res EXCEPT !.op = "held", !.changed = TRUE]
    /\ UNCHANGED <<pend, users, accounts>>

TasksCursor ==
    \/ /\ res = NoRes
       /\ \E c \in Contexts, failAt \in 0..2, first \in PageSizes,
             after \in {NoId} \cup TaskIds \cup {NeverId},
             userId \in {NoUser} \cup UserIds :
             CursorRequest(c, failAt, first, after, userId, NoRes)
    \/ /\ IsFirstPage(res) \/ IsHeldPage(res)
       /\ \E c \in Contexts, failAt \in 0..2 :
             /\ c.user = res.user
             /\ CursorRequest(c, failAt, res.first, res.endCursor, res.target, res)

MyTasks ==
    /\ res = NoRes
    /\ \E c \in Contexts, failAt \in 0..1 :
        LET r == Started("myTasks", c) IN
        /\ UNCHANGED <<pend, users, accounts, tasks, nextId, clock>>
        /\ IF c.thrown
           THEN res' = CtxFailed("myTasks", c)
           ELSE IF requireAuth(c.user)
           THEN res' = Failed(r, "UNAUTHENTICATED", 0)
           ELSE IF failAt = 1
           THEN res' = StorageFailed(r, 1)
           ELSE \E ord \in ListingOrders(tasks, Filtered(tasks, c.user)) :
                   res' = [r EXCEPT !.calls = 1, !.items = ord, !.order = ord,
                                    !.target = c.user]

TasksOffset ==
    /\ res = NoRes
    /\ \E c \in Contexts, failAt \in 0..1, limit \in PageSizes, offset \in 0..MaxFirst :
        LET r == [Started("tasksOffset", c) EXCEPT !.first = limit] IN
        /\ UNCHANGED <<pend, users, accounts, tasks, nextId, clock>>
        /\ IF c.thrown
           THEN res' = CtxFailed("tasksOffset", c)
           ELSE IF requireAuth(c.user)
           THEN res' = Failed(Started("tasksOffset", c), "UNAUTHENTICATED", 0)
           ELSE IF failAt = 1
           THEN res' = StorageFailed(Started("tasksOffset", c), 1)
           ELSE \E ord \in ListingOrders(tasks, Filtered(tasks, c.user)) :
                   res' = [r EXCEPT !.calls = 1, !.order = ord, !.target = c.user,
                                    !.items = FindMany(ord, limit, NoId, offset)]

\* query { task(id) }: the row of that id, read without requireAuth and
\* without a look at its owner
Task ==
    /\ res = NoRes
    /\ \E c \in Contexts, failAt \in 0..1, id \in TaskIds \cup {NeverId} :
        LET r == [Started("task", c) EXCEPT !.id = id]
            task == findTask(tasks, id)
        IN
        /\ UNCHANGED <<pend, users, accounts, tasks, nextId, clock>>
        /\ IF c.thrown
           THEN res' = [CtxFailed("task", c) EXCEPT !.id = id]
           ELSE IF failAt = 1
           THEN res' = StorageFailed(r, 1)
           ELSE IF ~task.exists
           THEN res' = Failed(r, "NOT_FOUND", 1)
           ELSE res' = [r EXCEPT !.calls = 1, !.snap = task]

\* query { me }: the stored user of the principal
Me ==
    /\ res = NoRes
    /\ \E c \in Contexts, failAt \in 0..1 :
        LET r == Started("me", c) IN
        /\ UNCHANGED <<pend, users, accounts, tasks, nextId, clock>>
        /\ IF c.thrown
           THEN res' = CtxFailed("me", c)
           ELSE IF requireAuth(c.user)
           THEN res' = Failed(r, "UNAUTHENTICATED", 0)
           ELSE IF failAt = 1
           THEN res' = StorageFailed(r, 1)
           ELSE res' = [r EXCEPT !.calls = 1, !.target = findUser(users, c.user)]

\* the response reaches the client
Deliver ==
    /\ res # NoRes
    /\ res' = NoRes
    /\ UNCHANGED <<pend, users, accounts, tasks, nextId, clock>>

Next ==
    \/ Tick
    \/ Deliver
    \/ Hello
    \/ CreateTask
    \/ UpdateTask
    \/ DeleteTask
    \/ ToggleTaskComplete
    \/ Me
    \/ Task
    \/ MyTasks
    \/ TasksOffset
    \/ TasksCursor
    \/ Meanwhile

Spec == Init /\ [][Next]_vars

\* ------------------------------------------------ titles through updateTask
\* updateTask inputs whose title is any string, also one createTask rejects
AnyTitleUpdateInputs == UpdateInputsOf(Titles)

\* updateTask carrying any title a request can carry: data: input goes to
\* prisma.task.update as it came
UpdateTaskAnyTitle == UpdateTaskWith(AnyTitleUpdateInputs)

NextTitles ==
    \/ Tick
    \/ Deliver
    \/ CreateTask
    \/ UpdateTaskAnyTitle

SpecTitles == Init /\ [][NextTitles]_vars

\* ------------------------------------------- registration, login, sessions
\* a fresh database: no user yet
InitAuth ==
    /\ users = {}
    /\ accounts = [u \in UserIds |-> NoAccount]
    /\ tasks = [i \in TaskIds |-> NoRow]
    /\ nextId = 1
    /\ clock = 1
    /\ res = NoRes
    /\ pend = [p \in Callers |-> NoCall]

NextAuth ==
    \/ Deliver
    \/ Hello
    \/ Register
    \/ Login
    \/ Present

SpecAuth == InitAuth /\ [][NextAuth]_vars

\* the operations whose resolver starts with requireAuth
AuthOps == {"me", "myTasks", "tasksOffset", "tasksCursor", "createTask",
            "updateTask", "deleteTask", "toggleTaskComplete"}

\* the operations that read a task by id, check it and then write
MutOps == {"updateTask", "deleteTask", "toggleTaskComplete"}

\* ------------------------------------- task mutations, one await at a time
\* updateTask, deleteTask and toggleTaskComplete are async functions: other
\* calls run between the await of findUnique and the await of the write

\* what a call may carry
CallInputs(op) == IF op = "updateTask" THEN UpdateInputs ELSE {NoInput}

\* the call ended with an error: it answers with the error alone
Thrown(c, code) ==
    [NoCall EXCEPT !.op = c.op, !.pc = "done", !.user = c.user, !.id = c.id,
                   !.err = code]

\* every write computed from the row the call read
WriteRow_stale(op, seen, before, input) ==
    IF op = "updateTask" THEN UpdateRow(seen, input)
    ELSE IF op = "toggleTaskComplete" THEN [seen EXCEPT !.completed = ~seen.completed]
    ELSE NoRow

\* the row the write of the call leaves: update applies data to the stored
\* row, toggle stores the negation of the flag it read, delete removes
WriteRow(op, seen, before, input) ==
    IF op = "updateTask" THEN UpdateRow(before, input)
    ELSE IF op = "toggleTaskComplete" THEN [before EXCEPT !.completed = ~seen.completed]
    ELSE NoRow

\* a request reaches its resolver: requireAuth runs
Arrive ==
    \E p \in Callers, op \in MutOps, user \in {NoUser} \cup UserIds,
       id \in TaskIds \cup {NeverId} :
       \E input \in CallInputs(op) :
        /\ pend[p].pc = "idle"
        /\ pend' = [pend EXCEPT ![p] =
                      IF requireAuth(user)
                      THEN Thrown([NoCall EXCEPT !.op = op], "UNAUTHENTICATED")
                      ELSE [NoCall EXCEPT !.op = op, !.pc = "read", !.user = user,
                                          !.id = id, !.input = input]]
        /\ UNCHANGED <<users, accounts, tasks, nextId, clock, res>>

\* await prisma.task.findUnique, then the two checks
ReadStep ==
    \E p \in Callers, fail \in BOOLEAN :
        LET c == pend[p]
            existingTask == findTask(tasks, c.id)
        IN
        /\ c.pc = "read"
        /\ pend' = [pend EXCEPT ![p] =
                      IF fail THEN Thrown(c, "STORAGE")
                      ELSE IF ~existingTask.exists THEN Thrown(c, "NOT_FOUND")
                      ELSE IF notOwner(existingTask, c.user) THEN Thrown(c, "FORBIDDEN")
                      ELSE [c EXCEPT !.pc = "write", !.seen = existingTask]]
        /\ UNCHANGED <<users, accounts, tasks, nextId, clock, res>>

\* await prisma.task.update / delete ({ where: { id } }): Prisma rejects
\* with P2025 (record not found) when no row has the id any more
WriteStep ==
    \E p \in Callers, fail \in BOOLEAN :
        LET c == pend[p]
            before == findTask(tasks, c.id)
            after == WriteRow(c.op, c.seen, before, c.input)
        IN
        /\ c.pc = "write"
        /\ IF fail
           THEN pend' = [pend EXCEPT ![p] = Thrown(c, "STORAGE")] /\ UNCHANGED tasks
           ELSE IF ~before.exists
           THEN /\ pend' = [pend EXCEPT ![p] = [Thrown(c, "P2025") EXCEPT !.seen = c.seen]]
                /\ UNCHANGED tasks
           ELSE /\ tasks' = IF c.op = "deleteTask" THEN DeleteRow(tasks, c.id)
                            ELSE [tasks EXCEPT ![c.id] = after]
                /\ pend' = [q \in Callers |->
                              IF q = p
                              THEN [c EXCEPT !.pc = "done", !.before = before,
                                             !.snap = IF c.op = "deleteTask"
                                                      THEN before ELSE after,
                                             !.last = TRUE]
                              ELSE [pend[q] EXCEPT !.last = FALSE]]
        /\ UNCHANGED <<users, accounts, nextId, clock, res>>

\* the call's answer leaves the server
Return ==
    \E p \in Callers :
        /\ pend[p].pc = "done"
        /\ pend' = [pend EXCEPT ![p] = NoCall]
        /\ UNCHANGED <<users, accounts, tasks, nextId, clock, res>>

\* every task id has a row, created earlier by the users in turn
InitRace ==
    /\ users = UserIds
    /\ accounts = [u \in UserIds |-> NewAccount(Email(u), hashPassword(GoodPassword))]
    /\ tasks = [i \in TaskIds |->
                  NewRow(((i - 1) % MaxUsers) + 1, <<"x", "x", "x">>, 1)]
    /\ nextId = MaxTasks + 1
    /\ clock = 1
    /\ res = NoRes
    /\ pend = [p \in Callers |-> NoCall]

NextRace ==
    \/ Arrive
    \/ ReadStep
    \/ WriteStep
    \/ Return

SpecRace == InitRace /\ [][NextRace]_vars

\* --------------------------------------------- register, one await at a time
\* register awaits findUnique({ where: { email } }), hashPassword and
\* user.create in turn; User.email is @unique in the schema

\* a register request reaches its resolver: the three input checks run
ArriveRegister ==
    \E p \in Callers, input \in RegisterInputs :
        LET c == [NoCall EXCEPT !.op = "register", !.input = input] IN
        /\ pend[p].pc = "idle"
        /\ pend' = [pend EXCEPT ![p] =
                      IF \/ nameInvalid(input.name)
                         \/ ~isValidEmail(input.email)
                         \/ Len(input.password) < MinPasswordLength
                      THEN [Thrown(c, "BAD_USER_INPUT") EXCEPT !.input = input]
                      ELSE [c EXCEPT !.pc = "read"]]
        /\ UNCHANGED <<users, accounts, tasks, nextId, clock, res>>

\* await prisma.user.findUnique({ where: { email } }), then the check
CheckEmail ==
    \E p \in Callers, fail \in BOOLEAN :
        LET c == pend[p]
            existingUser == findUserByEmail(users, accounts, c.input.email)
        IN
        /\ c.op = "register"
        /\ c.pc = "read"
        /\ pend' = [pend EXCEPT ![p] =
                      IF fail THEN [Thrown(c, "STORAGE") EXCEPT !.input = c.input]
                      ELSE IF existingUser # NoUser
                      THEN [Thrown(c, "BAD_USER_INPUT") EXCEPT !.input = c.input]
                      ELSE [c EXCEPT !.pc = "write"]]
        /\ UNCHANGED <<users, accounts, tasks, nextId, clock, res>>

\* await prisma.user.create: the database refuses a second row with the
\* same email (unique constraint, Prisma error P2002)
CreateUser ==
    \E p \in Callers, fail \in BOOLEAN :
        LET c == pend[p]
            taken == findUserByEmail(users, accounts, c.input.email) # NoUser
        IN
        /\ c.op = "register"
        /\ c.pc = "write"
        /\ IF fail
           THEN /\ pend' = [pend EXCEPT ![p] =
                              [Thrown(c, "STORAGE") EXCEPT !.input = c.input]]
                /\ UNCHANGED <<users, accounts>>
           ELSE IF taken
           THEN /\ pend' = [pend EXCEPT ![p] =
                              [Thrown(c, "P2002") EXCEPT !.input = c.input]]
                /\ UNCHANGED <<users, accounts>>
           ELSE /\ users # UserIds
                /\ users' = users \cup {NewUserId(users)}
                /\ accounts' = [accounts EXCEPT ![NewUserId(users)] =
                                   NewAccount(c.input.email,
                                              hashPassword(c.input.password))]
                /\ pend' = [pend EXCEPT ![p] =
                              [c EXCEPT !.pc = "done", !.id = NewUserId(users),
                                        !.tok = generateToken(NewUserId(users))]]
        /\ UNCHANGED <<tasks, nextId, clock, res>>

NextRegister ==
    \/ ArriveRegister
    \/ CheckEmail
    \/ CreateUser
    \/ Return

SpecRegister == InitAuth /\ [][NextRegister]_vars

-----------------------------------------------------------------------------
\* NestJS UserService (nest-prisma-postgre): updateUser and deleteUser, one
\* await at a time.  users holds the stored ids, accounts their rows.

NoNestUser == [exists |-> FALSE, email |-> <<>>, name |-> <<>>]

NestUser(email, name) == [exists |-> TRUE, email |-> email, name |-> name]

NestOps == {"updateUser", "deleteUser"}

\* UpdateUserInput: name is the only required field
UpdateUserInputs(op) ==
    IF op = "updateUser" THEN { [name |-> n] : n \in Names }
    ELSE {NoInput}

\* GraphQLErrorFilter.catch: the code attached to an HttpException by status
GraphQLErrorFilter(status) ==
    CASE status = 404 -> "NOT_FOUND"
      [] status = 400 -> "BAD_USER_INPUT"
      [] status = 401 -> "UNAUTHENTICATED"
      [] status = 403 -> "FORBIDDEN"
      [] OTHER -> "INTERNAL_SERVER_ERROR"

\* NotFoundException is the HttpException of status 404
NotFoundException == 404

InitNest ==
    /\ users = UserIds
    /\ accounts = [u \in UserIds |-> NestUser(Email(u), <<"x", "x">>)]
    /\ tasks = [i \in TaskIds |-> NoRow]
    /\ nextId = 1
    /\ clock = 1
    /\ res = NoRes
    /\ pend = [p \in Callers |-> NoCall]

\* the resolver hands id (and the input) to the service
ArriveNest ==
    \E p \in Callers, op \in NestOps, id \in UserIds \cup {GhostUser} :
        \E input \in UpdateUserInputs(op) :
            /\ pend[p].pc = "idle"
            /\ pend' = [pend EXCEPT ![p] =
                          [NoCall EXCEPT !.op = op, !.pc = "read", !.id = id,
                                         !.input = input]]
            /\ UNCHANGED <<users, accounts, tasks, nextId, clock, res>>

\* await this.findOne(id): findUnique, NotFoundException when it is null
FindOne ==
    \E p \in Callers, fail \in BOOLEAN :
        LET c == pend[p]
            user == IF c.id \in users THEN accounts[c.id] ELSE NoNestUser
        IN
        /\ c.op \in NestOps
        /\ c.pc = "read"
        /\ pend' = [pend EXCEPT ![p] =
                      IF fail THEN Thrown(c, "STORAGE")
                      ELSE IF ~user.exists
                      THEN Thrown(c, GraphQLErrorFilter(NotFoundException))
                      ELSE [c EXCEPT !.pc = "write", !.seen = user]]
        /\ UNCHANGED <<users, accounts, tasks, nextId, clock, res>>

\* await this.prisma.user.update / delete ({ where: { id } }): Prisma rejects
\* with P2025 when the row is gone; that error is no HttpException, so the
\* filter does not handle it
WriteUser ==
    \E p \in Callers, fail \in BOOLEAN :
        LET c == pend[p] IN
        /\ c.op \in NestOps
        /\ c.pc = "write"
        /\ IF fail
           THEN /\ pend' = [pend EXCEPT ![p] = Thrown(c, "STORAGE")]
                /\ UNCHANGED <<users, accounts>>
           ELSE IF c.id \notin users
           THEN /\ pend' = [pend EXCEPT ![p] =
                              [Thrown(c, "P2025") EXCEPT !.seen = c.seen]]
                /\ UNCHANGED <<users, accounts>>
           ELSE /\ users' = IF c.op = "deleteUser" THEN users \ {c.id}
                            ELSE users
                /\ accounts' = [accounts EXCEPT ![c.id] =
                                   IF c.op = "deleteUser" THEN NoNestUser
                                   ELSE [@ EXCEPT !.name = c.input.name]]
                /\ pend' = [pend EXCEPT ![p] =
                              [c EXCEPT !.pc = "done",
                                        !.before = accounts[c.id]]]
        /\ UNCHANGED <<tasks, nextId, clock, res>>

NextNest ==
    \/ ArriveNest
    \/ FindOne
    \/ WriteUser
    \/ Return

SpecNest == InitNest /\ [][NextNest]_vars

\* ------------------------------------------------------------------ claims
\* this step is a request being answered
Answered == res = NoRes /\ res' # NoRes

\* the request's first storage call (the read) returned
ReadReturned(r) == r.calls >= 1 /\ ~(r.err = "STORAGE" /\ r.calls = 1)

\* an id that was given to a task whose row is gone
Deleted(t, n, i) == i \in TaskIds /\ i < n /\ ~t[i].exists

Range(s) == { s[i] : i \in 1..Len(s) }

\* correctly signed and unexpired
ValidToken(tok) == tok.kind = "jwt" /\ tok.goodSig /\ ~tok.expired

\* C1: an operation that requires authentication, called with an absent
\* principal, fails with UNAUTHENTICATED having issued no storage call of its
\* own, and the stored records are unchanged.
C1_AnonymousRejected ==
    [][ (Answered /\ res'.op \in AuthOps /\ res'.ctx = "ok" /\ res'.user = NoUser)
        => (/\ res'.err = "UNAUTHENTICATED"
            /\ res'.calls = 0
            /\ store' = store) ]_vars

C1_Witness ==
    /\ res.op = "updateTask"
    /\ res.ctx = "ok"
    /\ res.user = NoUser
    /\ res.err = "UNAUTHENTICATED"
    /\ findTask(tasks, res.id).exists

\* C2: updateTask, toggleTaskComplete and deleteTask by an authenticated
\* principal on an existing record of another owner fail with FORBIDDEN and
\* leave every record unmodified; for the owner the check passes (no
\* FORBIDDEN) and nothing changes unless the write itself is applied.
C2_OwnershipGuard ==
    [][ (/\ Answered
         /\ res'.op \in MutOps
         /\ res'.ctx = "ok"
         /\ res'.user # NoUser
         /\ ReadReturned(res')
         /\ findTask(tasks, res'.id).exists)
        => IF findTask(tasks, res'.id).userId # res'.user
           THEN res'.err = "FORBIDDEN" /\ store' = store
           ELSE /\ res'.err # "FORBIDDEN"
                /\ res'.err # "none" => store' = store ]_vars

C2_Witness ==
    /\ res.op = "deleteTask"
    /\ res.err = "FORBIDDEN"
    /\ findTask(tasks, res.id).exists
    /\ res.user \in UserIds
    /\ findTask(tasks, res.id).userId # res.user

\* C3: on an unchanged collection, the first page of size k and the page
\* after its endCursor are disjoint and together are the first min(2k, |C|)
\* records newest-first, none repeated and none skipped.
C3_TwoPagesPartition ==
    (/\ res.op = "tasksCursor"
     /\ res.err = "none"
     /\ res.cont
     /\ ~res.changed
     /\ res.first >= 1)
    => LET cat == res.prev \o res.items
           C == Filtered(tasks, res.target)
       IN /\ Len(cat) = Min(2 * res.first, Cardinality(C))
          /\ \A i, j \in 1..Len(cat) : i # j => cat[i] # cat[j]
          /\ Range(cat) \subseteq C
          /\ \A i, j \in 1..Len(cat) :
                i < j => tasks[cat[i]].createdAt >= tasks[cat[j]].createdAt
          /\ \A x \in C \ Range(cat) : \A i \in 1..Len(cat) :
                tasks[cat[i]].createdAt >= tasks[x].createdAt

\* C4: with first >= 1 and a valid cursor or none, tasksCursor returns at most
\* first items, endCursor is the last returned item, and hasNextPage is true
\* exactly when a record of the filtered collection follows that item in the
\* listing order.
C4_PageShape ==
    (/\ res.op = "tasksCursor"
     /\ res.err = "none"
     /\ res.first >= 1
     /\ (res.after = NoId \/ res.after \in Filtered(tasks, res.target)))
    => /\ Len(res.items) <= res.first
       /\ Range(res.items) \subseteq Filtered(tasks, res.target)
       /\ res.endCursor = IF res.items = <<>> THEN NoId
                          ELSE res.items[Len(res.items)]
       /\ res.hasNextPage <=>
             /\ res.items # <<>>
             /\ IndexOf(res.order, res.items[Len(res.items)]) < Len(res.order)

C4_Witness ==
    /\ res.op = "tasksCursor"
    /\ res.err = "none"
    /\ res.cont
    /\ res.first = 1
    /\ Len(res.prev) = 1
    /\ Len(res.items) = 1
    /\ res.items # res.prev
    /\ ~res.hasNextPage
    /\ res.endCursor = res.items[1]

\* C5: tasksCursor(first = 0, no cursor) returns no items, and hasNextPage is
\* true exactly when the filtered collection has a record.
C5_ZeroPage ==
    (res.op = "tasksCursor" /\ res.err = "none" /\ res.first = 0 /\ res.after = NoId)
    => /\ res.items = <<>>
       /\ res.hasNextPage <=> Filtered(tasks, res.target) # {}

C5_Witness ==
    /\ res.op = "tasksCursor"
    /\ res.err = "none"
    /\ res.first = 0
    /\ res.after = NoId
    /\ res.hasNextPage
    /\ Cardinality(Filtered(tasks, res.target)) >= 2

\* C6: on an empty filtered collection and without a cursor, tasksCursor of
\* any page size returns no items, no start or end cursor, hasNextPage false
\* and hasPreviousPage false.
C6_EmptyCollection ==
    (/\ res.op = "tasksCursor"
     /\ res.err = "none"
     /\ res.after = NoId
     /\ Filtered(tasks, res.target) = {})
    => /\ res.items = <<>>
       /\ res.startCursor = NoId
       /\ res.endCursor = NoId
       /\ ~res.hasNextPage
       /\ ~res.hasPreviousPage

C6_Witness ==
    /\ res.op = "tasksCursor"
    /\ res.err = "none"
    /\ res.after = NoId
    /\ res.first = DefaultFirst
    /\ Filtered(tasks, res.target) = {}
    /\ \E i \in TaskIds : tasks[i].exists
    /\ res.items = <<>>

\* C7: once deleteTask has succeeded on an id, the id has no row, never gets
\* one again, and every later updateTask, deleteTask or toggleTaskComplete
\* on it by an authenticated principal fails with NOT_FOUND.
C7_DeletedStaysGone ==
    [][ /\ \A i \in TaskIds : Deleted(tasks, nextId, i) => Deleted(tasks', nextId', i)
        /\ (Answered /\ res'.op = "deleteTask" /\ res'.err = "none")
           => Deleted(tasks', nextId', res'.id)
        /\ (/\ Answered
            /\ res'.op \in MutOps
            /\ res'.ctx = "ok"
            /\ res'.user # NoUser
            /\ ReadReturned(res')
            /\ Deleted(tasks, nextId, res'.id))
           => res'.err = "NOT_FOUND" ]_vars

C7_Witness ==
    /\ res.op = "deleteTask"
    /\ res.user \in UserIds
    /\ res.err = "NOT_FOUND"
    /\ Deleted(tasks, nextId, res.id)

\* C8 as stated: every valid credential resolves to a principal whose id is
\* the credential's subject, every other credential to an absent principal.
C8_ValidMeansPrincipal ==
    (res.op = "hello" /\ res.ctx = "ok")
    => res.user = IF ValidToken(res.tok) THEN res.tok.sub ELSE NoUser

\* C8 amended: a valid credential resolves to the principal with the
\* subject's id when a user with that id is stored and to an absent principal
\* when none is; every expired, tampered, malformed or absent credential
\* resolves to an absent principal, without a storage call.
C8_ValidAndStoredMeansPrincipal ==
    (res.op = "hello" /\ res.ctx = "ok")
    => /\ res.user = IF ValidToken(res.tok) /\ res.tok.sub \in users
                     THEN res.tok.sub ELSE NoUser
       /\ ~ValidToken(res.tok) => res.ctxCalls = 0

C8_Witness ==
    /\ res.op = "hello"
    /\ res.ctx = "ok"
    /\ ValidToken(res.tok)
    /\ res.tok.sub \in users
    /\ res.user = res.tok.sub

\* C9: the identity resolver raises no error, whatever the credential and
\* whatever the storage does.
C9_ContextNeverThrows == res.ctx # "thrown"

\* C10: tasksCursor with a cursor that identifies no record of the filtered
\* collection fails with InvalidCursor.
C10_InvalidCursorRejected ==
    (/\ res.op = "tasksCursor"
     /\ res.ctx = "ok"
     /\ res.user # NoUser
     /\ res.err # "STORAGE"
     /\ res.after # NoId
     /\ res.after \notin Filtered(tasks, res.target))
    => res.err = "INVALID_CURSOR"

\* s lists its rows newest first, rows of equal createdAt by id: ascending
\* when dir = 1, descending when dir = -1
ByStampThenId(t, s, dir) ==
    \A i, j \in 1..Len(s) :
        i < j => \/ t[s[i]].createdAt > t[s[j]].createdAt
                 \/ /\ t[s[i]].createdAt = t[s[j]].createdAt
                    /\ dir * s[i] < dir * s[j]

\* C11: the listing order tasksCursor uses is total: createdAt descending,
\* rows of equal createdAt by id in one direction on every query, so that on
\* an unchanged collection the held page and the page after it neither
\* repeat nor skip a record, equal timestamps included.
C11_TotalListingOrder ==
    (/\ res.op = "tasksCursor"
     /\ res.err = "none"
     /\ res.cont
     /\ ~res.changed
     /\ res.first >= 1)
    => /\ \E dir \in {1, -1} : /\ ByStampThenId(tasks, res.listed, dir)
                                /\ ByStampThenId(tasks, res.order, dir)
       /\ Range(res.prev) \cap Range(res.items) = {}
       /\ Cardinality(Range(res.prev) \cup Range(res.items))
             = Min(2 * res.first, Cardinality(Filtered(tasks, res.target)))

\* C12: updateTask, toggleTaskComplete and deleteTask read the record by id,
\* answer NOT_FOUND when it is absent whoever the principal is, then check
\* ownership, then write, then return the record: the write is issued (and
\* the table changes) only for an existing record of the principal, and the
\* record returned is the one written (the one removed, for deleteTask).
C12_ReadCheckWrite ==
    [][ (/\ Answered
         /\ res'.op \in MutOps
         /\ res'.ctx = "ok"
         /\ res'.user # NoUser)
        => LET row == findTask(tasks, res'.id) IN
           /\ (res'.calls = 2 \/ tasks' # tasks)
                 => row.exists /\ row.userId = res'.user
           /\ (ReadReturned(res') /\ ~row.exists)
                 => res'.err = "NOT_FOUND" /\ res'.calls = 1
           /\ res'.err = "FORBIDDEN" => row.exists /\ res'.calls = 1
           /\ res'.err = "none"
                 => /\ res'.calls = 2
                    /\ res'.snap.exists
                    /\ IF res'.op = "deleteTask"
                       THEN res'.snap = row /\ ~findTask(tasks', res'.id).exists
                       ELSE res'.snap = findTask(tasks', res'.id) ]_vars

C12_Witness ==
    /\ res.op = "toggleTaskComplete"
    /\ res.err = "none"
    /\ res.calls = 2
    /\ res.snap.completed
    /\ findTask(tasks, res.id) = res.snap
    /\ res.snap.userId = res.user

\* C13: a record createTask stores is owned by the principal of the request,
\* for every credential and every input the request carries: the new row and
\* the record returned carry the principal's id, and no other row changes.
C13_CreateStampsPrincipal ==
    [][ (Answered /\ res'.op = "createTask" /\ res'.err = "none")
        => /\ res'.user \in UserIds
           /\ ~findTask(tasks, res'.id).exists
           /\ findTask(tasks', res'.id).exists
           /\ findTask(tasks', res'.id).userId = res'.user
           /\ res'.snap = findTask(tasks', res'.id)
           /\ \A i \in TaskIds \ {res'.id} : tasks'[i] = tasks[i] ]_vars

\* the second user created a record while the first one has records too
C13_Witness ==
    /\ res.op = "createTask"
    /\ res.err = "none"
    /\ res.user = 2
    /\ findTask(tasks, res.id).userId = 2
    /\ \E i \in TaskIds : tasks[i].exists /\ tasks[i].userId = 1

\* C14: every stored record has one owner, a stored user id, and keeps it:
\* no step of createTask, updateTask, toggleTaskComplete or deleteTask changes
\* the owner of a record that stays stored, and an id is never given to a
\* second record.
C14_OwnerImmutable ==
    [][ \A i \in TaskIds :
          /\ tasks'[i].exists => tasks'[i].userId \in UserIds
          /\ (tasks[i].exists /\ tasks'[i].exists)
                => tasks'[i].userId = tasks[i].userId
          /\ Deleted(tasks, nextId, i) => ~tasks'[i].exists ]_vars

\* a record of the second user went through updateTask and another record
\* was deleted
C14_Witness ==
    /\ res.op = "updateTask"
    /\ res.err = "none"
    /\ res.snap.completed
    /\ findTask(tasks, res.id).userId = 2
    /\ \E i \in TaskIds : Deleted(tasks, nextId, i)

\* C15: a request that is answered with an error (UNAUTHENTICATED, FORBIDDEN,
\* NOT_FOUND, BAD_USER_INPUT, a storage error, a failed context) leaves the
\* stored records exactly as they were, and the resolver issued no storage
\* call after the point of failure: none before authentication and input
\* validation, only the read before NOT_FOUND and FORBIDDEN, none after the
\* call that rejected.
C15_FailureLeavesStore ==
    [][ (Answered /\ res'.err # "none")
        => /\ store' = store
           /\ res'.err \in {"CONTEXT", "UNAUTHENTICATED", "BAD_USER_INPUT"}
                 => res'.calls = 0
           /\ res'.err \in {"NOT_FOUND", "FORBIDDEN"} => res'.calls = 1
           /\ res'.err = "STORAGE" => res'.calls = res'.failed ]_vars

\* the write of updateTask on a stored record of the principal rejected
C15_Witness ==
    /\ res.op = "updateTask"
    /\ res.err = "STORAGE"
    /\ res.calls = 2
    /\ findTask(tasks, res.id).exists
    /\ findTask(tasks, res.id).userId = res.user
    /\ ~findTask(tasks, res.id).completed

ReadOps == {"task", "myTasks", "tasksOffset", "tasksCursor"}

\* C17: every task a read operation (task, myTasks, tasksOffset,
\* tasksCursor with any arguments) returns is owned by the authenticated
\* principal of the request, and a request without a principal is returned
\* no task.
C17_OnlyOwnTasks ==
    (res.op \in ReadOps /\ res.err = "none")
    => /\ res.snap.exists => res.snap.userId = res.user
       /\ res.items # <<>> => res.target = res.user
       /\ res.user = NoUser => ~res.snap.exists /\ res.items = <<>>

\* C18: the totalCount tasksCursor returns is the number of stored records
\* of the target owner at the time of the request, for every page size and
\* every cursor, whatever the number of items on the page.
C18_TotalCountIsOwnerCount ==
    [][ (Answered /\ res'.op = "tasksCursor" /\ res'.err = "none")
        => res'.totalCount
             = Cardinality({ i \in TaskIds :
                               tasks[i].exists /\ tasks[i].userId = res'.target }) ]_vars

\* a page shorter than the collection, asked for with a cursor
C18_Witness ==
    /\ res.op = "tasksCursor"
    /\ res.err = "none"
    /\ res.after # NoId
    /\ res.items = <<>>
    /\ res.totalCount = 2

\* C19: the token register or login returns is a valid token whose subject
\* is the user returned with it, and when the client presents it on a later
\* request, unexpired and with the user still stored, the context function
\* (its user lookup answering) yields the principal with that user's id.
C19_TokenNamesItsUser ==
    /\ IsSession(res) => /\ res.target \in users
                         /\ verifyToken(res.tok) = res.target
    /\ (/\ res.op = "hello"
        /\ res.cont
        /\ res.ctx = "ok"
        /\ ~res.tok.expired
        /\ res.target \in users)
       => res.user = res.target

\* the second user logged in and presented the token in time
C19_Witness ==
    /\ res.op = "hello"
    /\ res.cont
    /\ res.ctx = "ok"
    /\ ~res.tok.expired
    /\ res.target = 2
    /\ res.user = 2

\* the rows of s that are still stored, in the order of s
StillStored(t, s) ==
    LET Stored(x) == t[x].exists IN SelectSeq(s, Stored)

\* C20: when records were created or deleted after the client fetched a
\* page and before it asks for the page after that page's endCursor, the
\* new page has no item of the held page and consists, in order, of the
\* first k records that followed the cursor record in the listing and are
\* still stored.
C20_PageAfterChange ==
    (/\ res.op = "tasksCursor"
     /\ res.err = "none"
     /\ res.cont
     /\ res.changed
     /\ res.first >= 1)
    => LET at == IndexOf(res.listed, res.after)
           followers == StillStored(tasks, SubSeq(res.listed, at + 1, Len(res.listed)))
       IN /\ Range(res.items) \cap Range(res.prev) = {}
          /\ res.items = SubSeq(followers, 1, Min(res.first, Len(followers)))

\* the call has answered with success
Succeeded(c, op) == c.pc = "done" /\ c.op = op /\ c.err = "none"

\* C21: two updateTask calls of the owner on one record may both pass the
\* checks on the same read and both write; no call is answered with a
\* conflict, each successful call returns the stored row with its own fields
\* applied, and the stored record is the one returned by the call that
\* wrote last.
C21_LastWriterWins ==
    \A p \in Callers :
        /\ pend[p].err # "CONFLICT"
        /\ Succeeded(pend[p], "updateTask")
              => /\ pend[p].before.exists
                 /\ pend[p].snap = UpdateRow(pend[p].before, pend[p].input)
                 /\ pend[p].last => findTask(tasks, pend[p].id) = pend[p].snap

\* both calls read the same row, the first wrote between the read and the
\* write of the second, both succeeded, the second one's record is stored
C21_Witness ==
    /\ Succeeded(pend[1], "updateTask")
    /\ Succeeded(pend[2], "updateTask")
    /\ pend[1].id = pend[2].id
    /\ pend[1].user = pend[2].user
    /\ pend[1].seen = pend[2].seen
    /\ pend[2].before = pend[1].snap
    /\ pend[2].before # pend[2].seen
    /\ pend[2].last
    /\ pend[1].snap # pend[2].snap
    /\ findTask(tasks, pend[2].id) = pend[2].snap

\* C22: createTask by an authenticated principal, its storage call
\* answering: with no title or a title of trimmed length below 3 it fails
\* with BAD_USER_INPUT and inserts nothing; otherwise it succeeds and inserts
\* exactly one record, with that title and completed = false.
C22_TitleValidation ==
    [][ (/\ Answered
         /\ res'.op = "createTask"
         /\ res'.ctx = "ok"
         /\ res'.user # NoUser
         /\ res'.failed = 0)
        => IF res'.title = <<>> \/ Len(Trim(res'.title)) < MinTitleLength
           THEN /\ res'.err = "BAD_USER_INPUT"
                /\ tasks' = tasks
                /\ nextId' = nextId
           ELSE /\ res'.err = "none"
                /\ \E i \in TaskIds :
                      /\ ~tasks[i].exists
                      /\ tasks'[i].exists
                      /\ tasks'[i].title = res'.title
                      /\ ~tasks'[i].completed
                      /\ \A j \in TaskIds \ {i} : tasks'[j] = tasks[j] ]_vars

\* a title of three characters, two after the trim, was refused after another
\* createTask had succeeded
C22_Witness ==
    /\ res.op = "createTask"
    /\ res.err = "BAD_USER_INPUT"
    /\ Len(res.title) = 3
    /\ Len(Trim(res.title)) = 2
    /\ \E i \in TaskIds : tasks[i].exists /\ Len(Trim(tasks[i].title)) = 3

\* C23: after any sequence of createTask and updateTask calls every stored
\* task has a title of trimmed length at least 3.
C23_StoredTitlesLongEnough ==
    \A i \in TaskIds :
        tasks[i].exists => Len(Trim(tasks[i].title)) >= MinTitleLength

\* C24: when two toggleTaskComplete calls of the owner on one task have both
\* succeeded (f wrote first, l wrote next, nothing else wrote since f read),
\* the stored flag is the one stored before the two calls, and each call
\* returned the negation of the flag stored just before its write.
C24_TwoTogglesRestore ==
    \A f, l \in Callers :
        (/\ f # l
         /\ Succeeded(pend[f], "toggleTaskComplete")
         /\ Succeeded(pend[l], "toggleTaskComplete")
         /\ pend[f].id = pend[l].id
         /\ pend[f].seen = pend[f].before
         /\ pend[l].before = pend[f].snap
         /\ pend[l].last)
        => /\ findTask(tasks, pend[l].id).completed = pend[f].before.completed
           /\ pend[f].snap.completed = ~pend[f].before.completed
           /\ pend[l].snap.completed = ~pend[l].before.completed

\* C25: an updateTask or toggleTaskComplete that passed its checks on record
\* X and whose write comes after a successful deleteTask of X (the write
\* finds no row) is answered with NOT_FOUND, returns no record, and X stays
\* out of storage.
C25_StaleWriteNotFound ==
    \A p \in Callers :
        (/\ pend[p].pc = "done"
         /\ pend[p].op \in {"updateTask", "toggleTaskComplete"}
         /\ pend[p].seen.exists
         /\ ~pend[p].before.exists
         /\ pend[p].err # "STORAGE")
        => /\ pend[p].err = "NOT_FOUND"
           /\ pend[p].snap = NoRow
           /\ ~findTask(tasks, pend[p].id).exists

\* C26: no two stored users share an email, and a register call (valid
\* input, storage answering) whose email belongs to a stored user it did not
\* create itself is answered with BAD_USER_INPUT and no token and creates no
\* user, also when two calls with one email both passed the existence check.
C26_UniqueEmailValidation ==
    /\ \A u, v \in users : u # v => accounts[u].email # accounts[v].email
    /\ \A p \in Callers :
          (/\ pend[p].op = "register"
           /\ pend[p].pc = "done"
           /\ pend[p].err # "STORAGE"
           /\ \E u \in users \ {pend[p].id} :
                 accounts[u].email = pend[p].input.email)
          => /\ pend[p].err = "BAD_USER_INPUT"
             /\ pend[p].tok = NoToken
             /\ pend[p].id = NoUser

\* what the client sees of a login answer
LoginAnswer(r) == <<r.err, r.msg, r.tok, r.target>>

\* C27: a login that fails on its credentials is answered in one and the
\* same way whether the email is unknown or the email is known and the
\* password wrong: code UNAUTHENTICATED, message "Invalid credentials", no
\* token, no user.
C27_LoginFailuresAlike ==
    (/\ res.op = "login"
     /\ res.ctx = "ok"
     /\ res.failed = 0
     /\ res.err # "none")
    => LoginAnswer(res) = <<"UNAUTHENTICATED", "Invalid credentials", NoToken, NoUser>>

\* a login with a registered email and a wrong password was refused
C27_Witness ==
    /\ res.op = "login"
    /\ res.err = "UNAUTHENTICATED"
    /\ findUserByEmail(users, accounts, res.email) # NoUser
    /\ \E e \in Emails : findUserByEmail(users, accounts, e) = NoUser

\* C28: a token that verifies but whose subject has no stored user gives
\* an absent principal, and every operation that requires authentication,
\* called with it, fails with UNAUTHENTICATED, issues no storage call of its
\* own and changes nothing.
C28_VerifiedButUnknownSubject ==
    [][ /\ \A tok \in Jwts :
              (ValidToken(tok) /\ tok.sub \notin users)
              => /\ ~getContext(tok, FALSE, users).thrown
                 /\ getContext(tok, FALSE, users).user = NoUser
        /\ (/\ Answered
            /\ res'.op \in AuthOps
            /\ res'.ctx = "ok"
            /\ res'.ctxCalls = 1
            /\ res'.user = NoUser)
           => /\ res'.err = "UNAUTHENTICATED"
              /\ res'.calls = 0
              /\ store' = store ]_vars

\* deleteTask on a stored task, sent with a verified token of an unknown
\* subject (the user lookup ran and found nobody), was refused
C28_Witness ==
    /\ res.op = "deleteTask"
    /\ res.ctx = "ok"
    /\ res.ctxCalls = 1
    /\ res.user = NoUser
    /\ res.err = "UNAUTHENTICATED"
    /\ findTask(tasks, res.id).exists

C30_MissingUserNotFound ==
    \A p \in Callers :
        LET c == pend[p] IN
        (/\ c.pc = "done"
         /\ c.op \in NestOps
         /\ c.err \notin {"none", "STORAGE"})
        => /\ c.err = "NOT_FOUND"
           /\ ~c.seen.exists

====
